---- MODULE Spec2Model ----
(***************************************************************************)
(* Model of WaypointEECBSRunner.run_waypoint_scenario                      *)
(* (src/waypoint_eecbs.py): the decomposition of each agent's route into   *)
(* joint segments, the per-segment call of the external EECBS solver, the  *)
(* abort on the first failing segment, cost accumulation and the           *)
(* stitching of the per-segment paths.                                     *)
(*                                                                         *)
(* Python lists are sequences (1-based here, 0-based in the source: the    *)
(* loop variables seg and agent_id keep their 0-based values and index a   *)
(* sequence at +1).  Python's None for the cost is the empty sequence and  *)
(* an int c is <<c>>.  The map metadata of an entry (bucket, map_name,     *)
(* width, height, optimal_length, num_waypoints) is only copied into the   *)
(* solver's instance file and is left out of an entry.                     *)
(***************************************************************************)
EXTENDS Integers, Sequences, FiniteSets, TLC

\* ------------------------------------------------------------- bounds
MaxEntries == 2      \* entries parsed from the scenario file
MaxAgents == 2       \* largest num_agents asked for
MaxWaypoints == 1    \* waypoints of one entry
MaxPathLen == 2      \* points of one solver path
MaxCost == 1         \* largest cost the solver reports

\* The grid cells the scenario and the solver may name: two cells in the
\* runs against an arbitrary solver, a corridor of three in the runs against
\* a solver that keeps its contract (whose outcomes are few).
Cells == {<<0, 0>>, <<1, 0>>}

GridCells == {<<0, 0>>, <<1, 0>>, <<2, 0>>}

VARIABLES
    scenarios,        \* parser.scenarios: the parsed entries
    scenario_index,   \* argument
    num_agents,       \* argument
    pc,               \* "start", "loop", "solve", "done"
    agents,           \* the selected entries
    seqs,             \* each agent's route start -> waypoints -> goal
    num_segments,
    seg,              \* loop variable of the segment loop
    agent_pairs,      \* the pairs of the segment being solved
    complete_paths,
    total_cost,
    segment_results,
    temp_files,       \* self.temp_files
    ret,              \* what the call returned or raised
    solver_log,       \* history: one record per solver invocation
    built,            \* history: agent_pairs of every segment built so far
    solver_script,    \* <<>>, or the fixed outcomes of a scripted solver
    solver_honest     \* whether the solver's paths keep the solver's contract

vars == <<scenarios, scenario_index, num_agents, pc, agents, seqs, num_segments,
          seg, agent_pairs, complete_paths, total_cost, segment_results,
          temp_files, ret, solver_log, built, solver_script, solver_honest>>

\* ------------------------------------------------------------- helpers
Max2(a, b) == IF a >= b THEN a ELSE b

Min2(a, b) == IF a <= b THEN a ELSE b

SetMax(S) == CHOOSE m \in S : \A x \in S : x <= m

SeqsUpTo(S, n) == UNION {[1..k -> S] : k \in 0..n}

RECURSIVE SumSeq(_)
SumSeq(s) == IF s = <<>> THEN 0 ELSE Head(s) + SumSeq(Tail(s))

\* Python's s[start:stop] for any integers start, stop.
SliceBound(i, n) == IF i < 0 THEN Max2(i + n, 0) ELSE Min2(i, n)

PySlice(s, start, stop) ==
    LET lo == SliceBound(start, Len(s))
        hi == SliceBound(stop, Len(s))
    IN  IF lo >= hi THEN <<>> ELSE SubSeq(s, lo + 1, hi)

\* ------------------------------------------------------------- inputs
EntriesOver(cells) ==
    [start : cells, goal : cells, waypoints : SeqsUpTo(cells, MaxWaypoints)]

Paths == SeqsUpTo(Cells, MaxPathLen)

\* One timestep of a path on the grid: a wait or a move to a 4-neighbour.
Abs(x) == IF x < 0 THEN -x ELSE x

Step(c, d) == Abs(c[1] - d[1]) + Abs(c[2] - d[2]) <= 1

Walks ==
    {p \in SeqsUpTo(GridCells, MaxPathLen) :
        /\ p # <<>>
        /\ \A t \in 1..(Len(p) - 1) : Step(p[t], p[t + 1])}

\* ------------------------------------------------------------- results
NoError == [where |-> "none", segment |-> 0, reason |-> "none"]

Running == [status |-> "running", success |-> FALSE, keys |-> {}, error |-> NoError,
            total_cost |-> 0, complete_paths |-> <<>>, num_segments |-> 0]

Failure(where, segment, reason) ==
    [status |-> "returned", success |-> FALSE, keys |-> {"success", "error"},
     error |-> [where |-> where, segment |-> segment, reason |-> reason],
     total_cost |-> 0, complete_paths |-> <<>>, num_segments |-> 0]

Raised(exc) ==
    [status |-> "raised", success |-> FALSE, keys |-> {},
     error |-> [where |-> "exception", segment |-> 0, reason |-> exc],
     total_cost |-> 0, complete_paths |-> <<>>, num_segments |-> 0]

FinalResult(cost, paths, nseg) ==
    [status |-> "returned", success |-> TRUE,
     keys |-> {"success", "agents", "total_cost", "segment_results",
               "complete_paths", "num_segments", "num_agents"},
     error |-> NoError,
     total_cost |-> cost, complete_paths |-> paths, num_segments |-> nseg]

\* ------------------------------------------------------------- solver adapter
\* What subprocess.run can do: the process exits (with a return code and a
\* captured stdout), runs past the timeout, or cannot be run at all.
\* stdout_lines is the number of lines of the stripped stdout, marker whether
\* its last line holds 'Succeed', field whether that line's fifth
\* comma-separated field is missing ("short"), not an integer ("bad") or an
\* integer ("int", its number in value).
Proc(term, rc, lines, marker, field, value) ==
    [term |-> term, returncode |-> rc, stdout_lines |-> lines, marker |-> marker,
     field |-> field, value |-> value]

ProcOutcomes ==
    {Proc("timeout", 0, 0, FALSE, "short", 0),
     Proc("oserror", 0, 0, FALSE, "short", 0),
     Proc("exit", 1, 0, FALSE, "short", 0),
     Proc("exit", 1, 1, TRUE, "int", 1),
     Proc("exit", 0, 0, FALSE, "short", 0),
     Proc("exit", 0, 1, FALSE, "short", 0),
     Proc("exit", 0, 1, TRUE, "short", 0),
     Proc("exit", 0, 1, TRUE, "bad", 0)}
    \cup {Proc("exit", 0, 1, TRUE, "int", c) : c \in 1..MaxCost}

EecbsFailure(reason) == [success |-> FALSE, cost |-> <<>>, error |-> reason]

EecbsSuccess(cost) == [success |-> TRUE, cost |-> cost, error |-> "none"]

\* ''.split('\n') is [''], so output_lines is never empty.
OutputLines(p) == Max2(p.stdout_lines, 1)

\* cost = int(parts[4]) if len(parts) >= 5 else None
ExtractCost(p) == IF p.field = "int" THEN <<p.value>> ELSE <<>>

\* Mutant: a zero exit code is taken for success without looking for the
\* marker in the status line.
RunEecbsTrustsExitCode(p) ==
    IF p.term = "timeout" THEN EecbsFailure("timeout")
    ELSE IF p.term = "oserror" THEN EecbsFailure("exception")
    ELSE IF p.returncode # 0 THEN EecbsFailure("returncode")
    ELSE IF p.field = "bad" THEN EecbsFailure("exception")
    ELSE EecbsSuccess(ExtractCost(p))

\* Mutant: the timeout has no handler of its own and falls into the general
\* one.
RunEecbsTimeoutAsException(p) ==
    IF p.term \in {"timeout", "oserror"} THEN EecbsFailure("exception")
    ELSE IF p.returncode # 0 THEN EecbsFailure("returncode")
    ELSE IF ~p.marker THEN EecbsFailure("not_succeed")
    ELSE IF p.field = "bad" THEN EecbsFailure("exception")
    ELSE EecbsSuccess(ExtractCost(p))

RunEecbs(p) ==
    IF p.term = "timeout" THEN EecbsFailure("timeout")
    ELSE IF p.term = "oserror" THEN EecbsFailure("exception")
    ELSE IF p.returncode # 0 THEN EecbsFailure("returncode")
    ELSE IF OutputLines(p) = 0 THEN EecbsFailure("no_output")
    ELSE IF ~p.marker THEN EecbsFailure("not_succeed")
    ELSE IF p.field = "bad" THEN EecbsFailure("exception")
    ELSE EecbsSuccess(ExtractCost(p))

\* What _parse_paths_file can return for a solve of n agents: a list of at
\* most n paths (a record missing at the end shortens the list, a record
\* without coordinates or a missing record before another one is an empty
\* path; an unreadable file is the empty list).
PathsFileOutcomes(n) == SeqsUpTo(Paths, Max2(n, 0))

\* What it returns when the solver keeps its contract: for every agent a walk
\* on the grid from its pair's start to its pair's end.
ContractOutcomes(n, pairs) ==
    {ps \in [1..Max2(n, 0) -> Walks] :
        \A a \in 1..Max2(n, 0) :
            /\ ps[a][1] = pairs[a][1]
            /\ ps[a][Len(ps[a])] = pairs[a][2]}

SolverPaths(n, pairs) ==
    IF solver_honest THEN ContractOutcomes(n, pairs) ELSE PathsFileOutcomes(n)

\* ------------------------------------------------------------- decomposition
\* [agent['start']] + agent['waypoints'] + [agent['goal']]
RouteOf(agent) == <<agent.start>> \o agent.waypoints \o <<agent.goal>>

BuildSeqs(ags) == [i \in 1..Len(ags) |-> RouteOf(ags[i])]

\* max(len(seq) - 1 for seq in seqs), for a non-empty seqs
NumSegments(sqs) == SetMax({Len(sqs[i]) - 1 : i \in 1..Len(sqs)})

\* Mutant: a finished agent repeats its last hop instead of standing still.
SegmentPairRepeatsLastHop(seq, s) ==
    IF s < Len(seq) - 1
    THEN <<seq[s + 1], seq[s + 2]>>
    ELSE <<seq[Len(seq) - 1], seq[Len(seq)]>>

\* Mutant: the hop of segment s starts one point late.
SegmentPairOffByOne(seq, s) ==
    IF s < Len(seq) - 1
    THEN <<seq[s + 2], seq[s + 2]>>
    ELSE <<seq[Len(seq)], seq[Len(seq)]>>

\* One agent's (start, end) in segment s.
SegmentPair(seq, s) ==
    IF s < Len(seq) - 1
    THEN <<seq[s + 1], seq[s + 2]>>
    ELSE <<seq[Len(seq)], seq[Len(seq)]>>

\* Mutant: an agent that has finished is left out of the segment.
RECURSIVE AgentPairsDropFinished(_, _)
AgentPairsDropFinished(sqs, s) ==
    IF sqs = <<>> THEN <<>>
    ELSE (IF s < Len(Head(sqs)) - 1 THEN <<SegmentPair(Head(sqs), s)>> ELSE <<>>)
         \o AgentPairsDropFinished(Tail(sqs), s)

AgentPairs(sqs, s) == [i \in 1..Len(sqs) |-> SegmentPair(sqs[i], s)]

\* ------------------------------------------------------------- stitching
\* Mutant: an absent cost is counted as one step.
CostOrOne(result) ==
    IF result.cost # <<>> /\ result.cost[1] # 0 THEN result.cost[1] ELSE 1

\* result['cost'] if result['cost'] else 0
CostOrZero(result) ==
    IF result.cost # <<>> /\ result.cost[1] # 0 THEN result.cost[1] ELSE 0

\* segment_paths[agent_id] if agent_id < len(segment_paths) else []
PathOf(segment_paths, agent_id) ==
    IF agent_id < Len(segment_paths) THEN segment_paths[agent_id + 1] ELSE <<>>

\* path[0] of an empty path raises IndexError.
StitchFaults(path, s) == s # 0 /\ ~(Len(path) > 1) /\ Len(path) = 0

\* Mutant: a path of one point adds nothing (its point is taken for the
\* duplicate of the previous segment's last point).
StitchOneSkipsSinglePoint(assembled, path, s) ==
    IF s = 0 THEN path
    ELSE IF Len(path) > 1 THEN assembled \o Tail(path)
    ELSE assembled

\* Mutant: the duplicate is avoided by dropping the first segment's last
\* point instead of each later segment's first one.
StitchOneFirstDropsLast(assembled, path, s) ==
    IF s = 0 THEN SubSeq(path, 1, Len(path) - 1)
    ELSE IF Len(path) > 1 THEN assembled \o Tail(path)
    ELSE assembled \o <<path[1]>>

StitchOne(assembled, path, s) ==
    IF s = 0 THEN path
    ELSE IF Len(path) > 1 THEN assembled \o Tail(path)
    ELSE assembled \o <<path[1]>>

\* The agents the stitch loop runs over: range(num_agents).
AgentIds(n) == 0..(n - 1)

FaultingAgents(segment_paths, s, n) ==
    {a \in AgentIds(n) : StitchFaults(PathOf(segment_paths, a), s)}

\* complete_paths after the stitch loop ran over the agents below `stop`.
StitchUpTo(cps, segment_paths, s, stop) ==
    [i \in 1..Len(cps) |->
        IF i - 1 < stop THEN StitchOne(cps[i], PathOf(segment_paths, i - 1), s)
        ELSE cps[i]]

\* ------------------------------------------------------------- the run
\* The code copies cells and never inspects them, so against an arbitrary
\* solver its behaviour is the same under any renaming of the cells: the
\* first entry's start is fixed.
ScenarioFiles ==
    {s \in SeqsUpTo(EntriesOver(Cells), MaxEntries) :
        s # <<>> => s[1].start = <<0, 0>>}

GridScenarioFiles == SeqsUpTo(EntriesOver(GridCells), MaxEntries)

\* The solver and the scenario file it is run on.
Environments ==
    \/ /\ ~solver_honest
       /\ scenarios \in ScenarioFiles
    \/ /\ solver_honest
       /\ scenarios \in GridScenarioFiles

\* No route is longer than this many hops.
MaxSegments == MaxWaypoints + 1

\* A scripted solver: whether its i-th solve succeeds, fixed before the run.
SolverScripts == [1..MaxSegments -> BOOLEAN]

\* The solver's process outcomes at segment s: any, or those the script allows.
Scripted(result, s) ==
    solver_script # <<>> => (result.success <=> solver_script[s + 1])

InitRun ==
    /\ solver_honest \in BOOLEAN
    /\ Environments
    /\ scenario_index \in 0..MaxEntries
    /\ num_agents \in (-1)..MaxAgents
    /\ pc = "start"
    /\ agents = <<>>
    /\ seqs = <<>>
    /\ num_segments = 0
    /\ seg = 0
    /\ agent_pairs = <<>>
    /\ complete_paths = <<>>
    /\ total_cost = 0
    /\ segment_results = <<>>
    /\ temp_files = <<>>
    /\ ret = Running
    /\ solver_log = <<>>
    /\ built = <<>>

Init ==
    /\ InitRun
    /\ solver_script = <<>>

InitScripted ==
    /\ InitRun
    /\ solver_script \in SolverScripts

Return(r) ==
    /\ ret' = r
    /\ pc' = "done"

\* Lines 253-293: parse, select the agents, build the routes.
\* Mutant: the batch is refused only when the slice holds no entry at all.
NotEnoughAgentsWhenNone(ags, n) == Len(ags) = 0

\* Line 269: if len(agents) < num_agents
NotEnoughAgents(ags, n) == Len(ags) < n

SelectAgents ==
    /\ pc = "start"
    /\ LET ags == PySlice(scenarios, scenario_index, scenario_index + num_agents)
           sqs == BuildSeqs(ags)
       IN  IF Len(scenarios) = 0
           THEN /\ Return(Failure("no_scenarios", 0, "none"))
                /\ UNCHANGED <<agents, seqs, num_segments, complete_paths>>
           ELSE IF scenario_index >= Len(scenarios)
           THEN /\ Return(Failure("index_range", 0, "none"))
                /\ UNCHANGED <<agents, seqs, num_segments, complete_paths>>
           ELSE IF NotEnoughAgents(ags, num_agents)
           THEN /\ Return(Failure("not_enough_agents", 0, "none"))
                /\ agents' = ags
                /\ UNCHANGED <<seqs, num_segments, complete_paths>>
           ELSE IF sqs = <<>>
           THEN \* max() of an empty sequence raises ValueError
                /\ Return(Raised("ValueError"))
                /\ agents' = ags
                /\ seqs' = sqs
                /\ UNCHANGED <<num_segments, complete_paths>>
           ELSE /\ agents' = ags
                /\ seqs' = sqs
                /\ num_segments' = NumSegments(sqs)
                /\ complete_paths' = [i \in 1..Max2(num_agents, 0) |-> <<>>]
                /\ pc' = "loop"
                /\ UNCHANGED ret
    /\ UNCHANGED <<scenarios, scenario_index, num_agents, seg, agent_pairs,
                   total_cost, segment_results, temp_files, solver_log, built,
                   solver_script, solver_honest>>

\* Mutant: the joint-instance file is written but not recorded for removal.
TempFilesUnrecordedScenario(s) ==
    <<[seg |-> s, kind |-> "stats"], [seg |-> s, kind |-> "paths"]>>

\* The temporary files of segment s in the order they are appended to
\* self.temp_files: the joint-instance file (line 140), then the statistics
\* and paths files (line 321).
TempFilesOf(s) ==
    <<[seg |-> s, kind |-> "scen"], [seg |-> s, kind |-> "stats"],
      [seg |-> s, kind |-> "paths"]>>

\* Lines 295-321: the next segment's pairs and its three temporary files.
BuildSegment ==
    /\ pc = "loop"
    /\ seg < num_segments
    /\ agent_pairs' = AgentPairs(seqs, seg)
    /\ built' = Append(built, AgentPairs(seqs, seg))
    /\ temp_files' = temp_files \o TempFilesOf(seg)
    /\ pc' = "solve"
    /\ UNCHANGED <<scenarios, scenario_index, num_agents, agents, seqs,
                   num_segments, seg, complete_paths, total_cost,
                   segment_results, ret, solver_log, solver_script,
                   solver_honest>>

\* Mutant: only a timeout ends the run; any other failure is stitched.
SegmentFailedOnlyOnTimeout(result) == ~result.success /\ result.error = "timeout"

\* Line 334: the run gives up on a failed solve.
SegmentFailed(result) == ~result.success

\* Mutant: the failure is reported against the last segment of the run.
SegmentFailureNamesLast(s, result) == Failure("segment", num_segments, result.error)

\* Mutant: the failure is reported without the adapter's reason.
SegmentFailureDropsReason(s, result) == Failure("segment", s + 1, "none")

\* Lines 335-338: 'error': f"Segment {seg+1} failed: {result['error']}"
SegmentFailure(s, result) == Failure("segment", s + 1, result.error)

LogSolve(p, result) ==
    solver_log' = Append(solver_log, [seg |-> seg, proc |-> p,
                                      success |-> result.success,
                                      error |-> result.error, cost |-> result.cost])

\* Lines 324-338: the solver is run and the segment fails.
SolveSegmentFails ==
    /\ pc = "solve"
    /\ \E p \in ProcOutcomes :
          LET result == RunEecbs(p)
          IN  /\ Scripted(result, seg)
              /\ SegmentFailed(result)
              /\ LogSolve(p, result)
              /\ Return(SegmentFailure(seg, result))
    /\ UNCHANGED <<scenarios, scenario_index, num_agents, agents, seqs,
                   num_segments, seg, agent_pairs, complete_paths, total_cost,
                   segment_results, temp_files, built, solver_script,
                   solver_honest>>

SegmentResult(s, pairs, result, segment_paths) ==
    [segment |-> s + 1, agent_pairs |-> pairs, cost |-> result.cost,
     paths |-> segment_paths]

\* Mutant: the loop goes round again on the segment it has just stitched.
NextSegSolvesAgain(s) == s

\* Line 295, for seg in range(num_segments): the segment after segment s.
NextSeg(s) == s + 1

\* Lines 324-366: the solver is run, the segment succeeds, its paths are
\* parsed, recorded and stitched; then the loop goes on to the next segment
\* or, after the last one, the final result is returned (lines 368-402).
SolveSegmentStitches ==
    /\ pc = "solve"
    /\ \E p \in ProcOutcomes, segment_paths \in SolverPaths(num_agents, agent_pairs) :
          LET result == RunEecbs(p)
              faulting == FaultingAgents(segment_paths, seg, num_agents)
          IN  /\ Scripted(result, seg)
              /\ ~SegmentFailed(result)
              /\ faulting = {}
              /\ LogSolve(p, result)
              /\ segment_results' = Append(segment_results,
                     SegmentResult(seg, agent_pairs, result, segment_paths))
              /\ total_cost' = total_cost + CostOrZero(result)
              /\ complete_paths' =
                     StitchUpTo(complete_paths, segment_paths, seg, num_agents)
    /\ seg' = NextSeg(seg)
    /\ IF NextSeg(seg) < num_segments
       THEN /\ pc' = "loop"
            /\ UNCHANGED ret
       ELSE \* lines 368-402: the loop is over; the final result is returned
            Return(FinalResult(total_cost', complete_paths', num_segments))
    /\ UNCHANGED <<scenarios, scenario_index, num_agents, agents, seqs,
                   num_segments, agent_pairs, temp_files, built, solver_script,
                   solver_honest>>

\* The same, but the stitch loop raises IndexError at the first agent whose
\* path is empty in a segment after the first (path[0], line 366).
SolveSegmentFaults ==
    /\ pc = "solve"
    /\ \E p \in ProcOutcomes, segment_paths \in SolverPaths(num_agents, agent_pairs) :
          LET result == RunEecbs(p)
              faulting == FaultingAgents(segment_paths, seg, num_agents)
          IN  /\ Scripted(result, seg)
              /\ ~SegmentFailed(result)
              /\ faulting # {}
              /\ LogSolve(p, result)
              /\ segment_results' = Append(segment_results,
                     SegmentResult(seg, agent_pairs, result, segment_paths))
              /\ total_cost' = total_cost + CostOrZero(result)
              /\ complete_paths' = StitchUpTo(complete_paths, segment_paths, seg,
                                              CHOOSE a \in faulting :
                                                  \A b \in faulting : a <= b)
    /\ Return(Raised("IndexError"))
    /\ UNCHANGED <<scenarios, scenario_index, num_agents, agents, seqs,
                   num_segments, seg, agent_pairs, temp_files, built,
                   solver_script, solver_honest>>

Next ==
    \/ SelectAgents
    \/ BuildSegment
    \/ SolveSegmentFails
    \/ SolveSegmentStitches
    \/ SolveSegmentFaults

Spec == Init /\ [][Next]_vars

\* The same run against a scripted solver.
SpecScripted == InitScripted /\ [][Next]_vars

\* Lines 101-107, __del__: once the call has returned and its caller lets go
\* of the runner, every file recorded in self.temp_files is removed.
\* (temp_files is from then on the empty list of files still held.)
Del ==
    /\ pc = "done"
    /\ temp_files # <<>>
    /\ temp_files' = <<>>
    /\ UNCHANGED <<scenarios, scenario_index, num_agents, pc, agents, seqs,
                   num_segments, seg, agent_pairs, complete_paths, total_cost,
                   segment_results, ret, solver_log, built, solver_script,
                   solver_honest>>

NextLifetime ==
    \/ Next
    \/ Del

\* The run followed by the destruction of its runner.
SpecLifetime == Init /\ [][NextLifetime]_vars

\* ------------------------------------------------------------- properties
\* The entry of agent a (0-based) and its route, read off the inputs.
EntryOf(a) == scenarios[scenario_index + a + 1]

ExpectedRoute(a) ==
    <<EntryOf(a).start>> \o EntryOf(a).waypoints \o <<EntryOf(a).goal>>

Hops(a) == Len(ExpectedRoute(a)) - 1

\* The run has selected num_agents >= 1 entries and is decomposing them.
Decomposing ==
    /\ num_agents >= 1
    /\ scenario_index + num_agents <= Len(scenarios)
    /\ pc # "start"

ExpectedSegments == SetMax({Hops(a) : a \in 0..(num_agents - 1)})

\* C1: for a batch of num_agents >= 1 selected entries the decomposition has
\* exactly max(len(route) - 1) segments (num_segments is that number, no more
\* segments are ever built, and a completed run has built exactly that many),
\* and every segment built holds exactly num_agents pairs.
C1_SegmentCount ==
    Decomposing =>
        /\ num_segments = ExpectedSegments
        /\ Len(built) <= ExpectedSegments
        /\ \A i \in 1..Len(built) : Len(built[i]) = num_agents
        /\ (ret.success => /\ Len(built) = ExpectedSegments
                           /\ ret.num_segments = ExpectedSegments)

C1_Witness ==
    /\ Decomposing
    /\ num_agents = 2
    /\ Hops(0) # Hops(1)
    /\ ret.success
    /\ Len(built) = 2

\* C2: in every segment i at or past the end of agent a's route the agent is
\* present in the segment and its pair is (goal, goal).
C2_FinishedAgentPinned ==
    Decomposing =>
        \A i \in 1..Len(built) : \A a \in 0..(num_agents - 1) :
            (i - 1 >= Hops(a)) =>
                /\ a + 1 \in DOMAIN built[i]
                /\ built[i][a + 1] = <<EntryOf(a).goal, EntryOf(a).goal>>

C2_Witness ==
    /\ Decomposing
    /\ num_agents = 2
    /\ Hops(0) = 2
    /\ Hops(1) = 1
    /\ EntryOf(1).start # EntryOf(1).goal
    /\ Len(built) = 2
    /\ built[2][2] = <<EntryOf(1).goal, EntryOf(1).goal>>

\* C3: in every segment i before the end of agent a's route the agent's pair
\* is (route[a][i], route[a][i+1]), the waypoints in their declared order.
C3_HopPairs ==
    Decomposing =>
        \A i \in 1..Len(built) : \A a \in 0..(num_agents - 1) :
            (i - 1 < Hops(a)) =>
                /\ a + 1 \in DOMAIN built[i]
                /\ built[i][a + 1] = <<ExpectedRoute(a)[i], ExpectedRoute(a)[i + 1]>>

\* The shape of the spec's end-to-end example: agent 0 with one waypoint,
\* agent 1 with none, both segments built.
C3_Witness ==
    /\ Decomposing
    /\ num_agents = 2
    /\ Len(EntryOf(0).waypoints) = 1
    /\ EntryOf(0).waypoints[1] # EntryOf(0).start
    /\ EntryOf(0).waypoints[1] # EntryOf(0).goal
    /\ Len(EntryOf(1).waypoints) = 0
    /\ built = << <<<<EntryOf(0).start, EntryOf(0).waypoints[1]>>,
                    <<EntryOf(1).start, EntryOf(1).goal>>>>,
                  <<<<EntryOf(0).waypoints[1], EntryOf(0).goal>>,
                    <<EntryOf(1).goal, EntryOf(1).goal>>>> >>

\* The last solver invocation of the run.
LastSolve == solver_log[Len(solver_log)]

\* The run returned the failure of a segment solve.
SegmentFailureReturned ==
    /\ ret.status = "returned"
    /\ ret.error.where = "segment"

\* C4: a failed solve is the last solver invocation of its run (no segment
\* after it is ever solved), and the run has then ended in a failed result.
C4_AbortOnFirstFailure ==
    \A i \in 1..Len(solver_log) :
        ~solver_log[i].success =>
            /\ i = Len(solver_log)
            /\ pc = "done"
            /\ ret.status = "returned"
            /\ ~ret.success

C4_Witness ==
    /\ num_agents = 2
    /\ num_segments = 2
    /\ Len(solver_log) = 1
    /\ LastSolve.seg = 0
    /\ ~LastSolve.success
    /\ pc = "done"
    /\ Len(built) = 1

\* The failing segment indices of the scripted solver within the run.
ScriptedFailures == {i \in 0..(num_segments - 1) : ~solver_script[i + 1]}

LowestFailure == CHOOSE i \in ScriptedFailures : \A j \in ScriptedFailures : i <= j

\* The segment a failure result names: "Segment k failed" is the k-th segment.
ReportedSegment == ret.error.segment - 1

\* C5: against a fixed sequence of per-segment outcomes, a run that reports a
\* failing segment reports the lowest-indexed failing one, and a run that
\* returns although the sequence holds a failure returns that report: the
\* report is a function of the outcome sequence alone.
C5_LowestFailingSegment ==
    /\ SegmentFailureReturned =>
          /\ ScriptedFailures # {}
          /\ ReportedSegment = LowestFailure
    /\ (Decomposing /\ ret.status = "returned" /\ ScriptedFailures # {}) =>
          /\ SegmentFailureReturned
          /\ ReportedSegment = LowestFailure

C5_Witness ==
    /\ num_agents = 2
    /\ num_segments = 2
    /\ solver_script = <<TRUE, FALSE>>
    /\ SegmentFailureReturned
    /\ ReportedSegment = 1

\* C6 as stated: the failure result carries the failing segment's 0-based
\* index.
C6_ZeroBasedIndex ==
    SegmentFailureReturned => ret.error.segment = LastSolve.seg

\* C6 as amended: the failure result has success = false, names the failing
\* segment by its 1-based number i + 1, carries the adapter's reason, and
\* holds nothing but success and error (no complete_paths, no total_cost).
C6_FailureResult ==
    /\ SegmentFailureReturned =>
          /\ ~ret.success
          /\ ~LastSolve.success
          /\ ret.error.segment = LastSolve.seg + 1
          /\ ret.error.reason = LastSolve.error
          /\ ret.keys = {"success", "error"}
    /\ (Len(solver_log) > 0 /\ ~LastSolve.success) => SegmentFailureReturned

\* A timeout on the first segment of a run of several segments.
C6_Witness ==
    /\ num_segments = 2
    /\ Len(solver_log) = 1
    /\ LastSolve.seg = 0
    /\ LastSolve.error = "timeout"
    /\ SegmentFailureReturned
    /\ ret.error.segment = 1
    /\ ret.error.reason = "timeout"

\* What a segment's cost adds to the total: 0 when it is absent.
CostValue(cost) == IF cost = <<>> THEN 0 ELSE cost[1]

LoggedCosts ==
    [i \in 1..Len(solver_log) |->
        IF solver_log[i].success THEN CostValue(solver_log[i].cost) ELSE 0]

\* C7: total_cost is the sum of the costs of the segments solved so far, an
\* absent cost counting 0, and a completed run returns that sum over all its
\* num_segments segments.
C7_TotalCost ==
    /\ total_cost = SumSeq(LoggedCosts)
    /\ ret.success =>
          /\ ret.total_cost = SumSeq(LoggedCosts)
          /\ Len(solver_log) = num_segments
          /\ \A i \in 1..Len(solver_log) : solver_log[i].success

C7_Witness ==
    /\ ret.success
    /\ num_agents = 2
    /\ Len(solver_log) = 2
    /\ solver_log[1].cost = <<>>
    /\ solver_log[2].cost = <<1>>
    /\ ret.total_cost = 1

\* The path the solver gave for agent a in the k-th solved segment (1-based k).
OutcomePath(k, a) ==
    IF a < Len(segment_results[k].paths) THEN segment_results[k].paths[a + 1] ELSE <<>>

\* A step that stitches the outcome of a segment after the first.
LaterStitchStep ==
    /\ pc = "solve"
    /\ seg > 0
    /\ Len(segment_results') = Len(segment_results) + 1

\* The path stitched for agent a in that step.
StitchedPath(a) ==
    LET paths == segment_results'[Len(segment_results')].paths
    IN  IF a < Len(paths) THEN paths[a + 1] ELSE <<>>

WellFormedOutcomes ==
    /\ solver_honest
    /\ \A k \in 1..Len(segment_results) :
          /\ Len(segment_results[k].paths) = num_agents
          /\ \A a \in 0..(num_agents - 1) :
                LET path == OutcomePath(k, a)
                    pair == segment_results[k].agent_pairs[a + 1]
                IN  /\ path # <<>>
                    /\ path[1] = pair[1]
                    /\ path[Len(path)] = pair[2]
                    /\ \A t \in 1..(Len(path) - 1) : path[t] # path[t + 1]

\* Where an agent is at timestep t of a path: it holds the last cell once the
\* path is over.
PosAt(path, t) == IF t < Len(path) THEN path[t + 1] ELSE path[Len(path)]

CollisionFree(paths, horizon) ==
    \A a, b \in 0..(num_agents - 1) :
        a # b => \A t \in 0..(horizon - 1) : PosAt(paths[a + 1], t) # PosAt(paths[b + 1], t)

\* No two agents swap cells in one timestep.
SwapFree(paths, horizon) ==
    \A a, b \in 0..(num_agents - 1) :
        a # b => \A t \in 0..(horizon - 1) :
            ~(/\ PosAt(paths[a + 1], t) = PosAt(paths[b + 1], t + 1)
              /\ PosAt(paths[a + 1], t + 1) = PosAt(paths[b + 1], t))

\* Every segment outcome stitched so far is also free of collisions: no two
\* agents in one cell at one timestep (an agent that has arrived holds its
\* end cell) and no two agents swapping cells.
SoundOutcomes ==
    /\ WellFormedOutcomes
    /\ \A k \in 1..Len(segment_results) :
          /\ CollisionFree(segment_results[k].paths, MaxPathLen)
          /\ SwapFree(segment_results[k].paths, MaxPathLen)

\* The stitch loop has run to its end for every segment solved so far.
StitchedSoFar == Decomposing /\ (pc = "loop" \/ ret.success)

\* C9 as stated: after each stitched segment all agents' assembled paths have
\* gained the same number of timesteps, so they have the same length and the
\* next segment begins at the same path index for every agent.  (Stated for
\* the outcomes of a sound solver only, which the claim does not even ask
\* for.)
C9_TimeAligned ==
    (StitchedSoFar /\ SoundOutcomes) =>
        \A a, b \in 0..(num_agents - 1) :
            Len(complete_paths[a + 1]) = Len(complete_paths[b + 1])

LongestAssembled == SetMax({Len(complete_paths[a + 1]) : a \in 0..(num_agents - 1)})

\* C10 as stated: when every segment outcome is collision-free (here also
\* well-formed and free of swaps), no two agents of a completed run share a
\* cell at the same index of their assembled paths, an agent past the end of
\* its path holding its last cell.
C10_CollisionFreeStitch ==
    (Decomposing /\ ret.success /\ SoundOutcomes)
    => CollisionFree(complete_paths, LongestAssembled)

\* The outcomes in `results` give every agent a non-empty path from its
\* pair's start to its pair's end.
EndpointsKept(results) ==
    \A k \in 1..Len(results) :
        /\ Len(results[k].paths) = num_agents
        /\ \A a \in 1..num_agents :
              /\ results[k].paths[a] # <<>>
              /\ results[k].paths[a][1] = results[k].agent_pairs[a][1]
              /\ results[k].paths[a][Len(results[k].paths[a])] =
                     results[k].agent_pairs[a][2]

\* C11: when every successful outcome so far, the one being stitched
\* included, gives each agent a path from its pair's start to its pair's end,
\* then in a segment after the first every agent's assembled path ends, just
\* before it is extended, at the first point of the agent's new path.
C11_BoundaryContinuity ==
    [][(LaterStitchStep /\ num_agents >= 1 /\ EndpointsKept(segment_results')) =>
         \A a \in 0..(num_agents - 1) :
            /\ complete_paths[a + 1] # <<>>
            /\ complete_paths[a + 1][Len(complete_paths[a + 1])] = StitchedPath(a)[1]]_vars

\* Both segments of a two-agent run stitched from such outcomes, agent 0
\* moving in both and agent 1 finished after the first.
C11_Witness ==
    /\ num_agents = 2
    /\ Len(segment_results) = 2
    /\ EndpointsKept(segment_results)
    /\ Hops(0) = 2
    /\ Hops(1) = 1
    /\ Len(OutcomePath(1, 0)) = 2
    /\ Len(OutcomePath(2, 0)) = 2
    /\ OutcomePath(1, 0)[2] = OutcomePath(2, 0)[1]
    /\ OutcomePath(1, 1)[Len(OutcomePath(1, 1))] = OutcomePath(2, 1)[1]
    /\ ret.success

\* C12 as stated: every agent's assembled path, once non-empty, begins at the
\* agent's start, and in every successful result it is non-empty and ends at
\* the agent's goal, for agents that finished in an earlier segment too.
C12_StartAndGoal ==
    Decomposing =>
        \A a \in 0..(num_agents - 1) :
            LET assembled == complete_paths[a + 1]
            IN  /\ assembled # <<>> => assembled[1] = EntryOf(a).start
                /\ (ret.status = "returned" /\ ret.success) =>
                      /\ assembled # <<>>
                      /\ assembled[Len(assembled)] = EntryOf(a).goal

\* The same statement for runs whose outcomes all keep the endpoints of their
\* pairs: what remains of C12 once the outcomes are what C13 says they are.
C12_StartAndGoalOfKeptEndpoints == EndpointsKept(segment_results) => C12_StartAndGoal

\* C13 as stated: every segment outcome the run has treated as successful
\* (recorded it and stitched it) has exactly num_agents paths, each non-empty,
\* from the agent's pair start to its pair end; an outcome whose paths file
\* yields nothing is never among them.
C13_SuccessHasPaths == Decomposing => EndpointsKept(segment_results)

\* The process of logged solve i exited with code 0 and a last line that
\* carries the success marker.
MarkedSuccess(i) ==
    /\ solver_log[i].proc.term = "exit"
    /\ solver_log[i].proc.returncode = 0
    /\ solver_log[i].proc.marker

\* C14 as stated: a solve whose status line carries the success marker but
\* whose cost field is absent or unparsable is still a success, with the cost
\* absent, and is not turned into a failure.
C14_MarkerWithoutCost ==
    \A i \in 1..Len(solver_log) :
        (MarkedSuccess(i) /\ solver_log[i].proc.field \in {"short", "bad"}) =>
            /\ solver_log[i].success
            /\ solver_log[i].cost = <<>>

\* The part of it that holds: with the field absent the solve is a success
\* with the cost absent.
C14_MarkerWithAbsentCost ==
    \A i \in 1..Len(solver_log) :
        (MarkedSuccess(i) /\ solver_log[i].proc.field = "short") =>
            /\ solver_log[i].success
            /\ solver_log[i].cost = <<>>

\* C15: a solve is reported as a success only if its process exited with
\* code 0 and the last line of its output carries the success marker; a zero
\* exit without the marker (an empty output included) is a failure.
C15_SuccessNeedsExitAndMarker ==
    \A i \in 1..Len(solver_log) :
        /\ solver_log[i].success => MarkedSuccess(i)
        /\ (/\ solver_log[i].proc.term = "exit"
            /\ solver_log[i].proc.returncode = 0
            /\ ~solver_log[i].proc.marker) => ~solver_log[i].success

\* The second segment's solver exited with code 0 and printed a status line
\* without the marker, and the run has failed on it.
C15_Witness ==
    /\ Len(solver_log) = 2
    /\ LastSolve.proc.term = "exit"
    /\ LastSolve.proc.returncode = 0
    /\ LastSolve.proc.stdout_lines = 1
    /\ ~LastSolve.proc.marker
    /\ ~LastSolve.success
    /\ LastSolve.error = "not_succeed"
    /\ SegmentFailureReturned

\* C16: _run_eecbs hands every way the process can end back to its caller as
\* an outcome, never as an exception: a process that cannot be run or exits
\* with a non-zero code gives a failure with an execution-error reason, a
\* timeout gives a failure with the timeout reason, and these reasons differ
\* from each other and from the one of a status line without the marker; the
\* caller then returns the failure with that reason.
C16_FailuresAreOutcomes ==
    \A i \in 1..Len(solver_log) :
        LET p == solver_log[i].proc
            error == solver_log[i].error
        IN  /\ p.term = "timeout" => (~solver_log[i].success /\ error = "timeout")
            /\ p.term = "oserror" => (~solver_log[i].success /\ error = "exception")
            /\ (p.term = "exit" /\ p.returncode # 0) =>
                   (~solver_log[i].success /\ error = "returncode")
            /\ (p.term = "exit" /\ p.returncode = 0 /\ ~p.marker) =>
                   (~solver_log[i].success /\ error = "not_succeed")
            /\ ~solver_log[i].success =>
                   /\ error \in {"timeout", "exception", "returncode", "not_succeed"}
                   /\ ret.status = "returned"
                   /\ ret.error.reason = error

\* The solver of the second segment ran past its timeout and the run has
\* returned the failure with the timeout reason.
C16_Witness ==
    /\ Len(solver_log) = 2
    /\ LastSolve.proc.term = "timeout"
    /\ ~LastSolve.success
    /\ ret.status = "returned"
    /\ ~ret.success
    /\ ret.error.reason = "timeout"
    /\ ret.error.segment = 2

\* The solver of the first segment could not be run at all.
C16_WitnessNotRun ==
    /\ Len(solver_log) = 1
    /\ LastSolve.proc.term = "oserror"
    /\ ret.status = "returned"
    /\ ret.error.reason = "exception"

\* C17 as stated: when the outcome of a segment after the first holds no path
\* for an agent, the stitch still appends one point to the agent's assembled
\* path, the end point of its pair, and the run does not fault.
C17_EmptyPathAppendsEnd ==
    [][LaterStitchStep =>
         \A a \in 0..(num_agents - 1) :
            StitchedPath(a) = <<>> =>
                /\ ret'.status # "raised"
                /\ complete_paths'[a + 1] =
                       Append(complete_paths[a + 1], agent_pairs[a + 1][2])]_vars

\* C18 as stated: a call with num_agents >= 1 ends, whatever the solver's
\* outcomes are, by returning a result that has a success flag; no exception
\* leaves run_waypoint_scenario.
C18_AlwaysReturnsResult ==
    (num_agents >= 1 /\ pc = "done") =>
        /\ ret.status = "returned"
        /\ "success" \in ret.keys

\* Fewer than num_agents entries are available from scenario_index onward.
TooFewEntries == Len(scenarios) - scenario_index < num_agents

\* C19: when fewer than num_agents entries are available from scenario_index
\* onward (scenario_index at or past the end included), the run returns a
\* failure before any segment is built, any temporary file is created or the
\* solver is invoked.
C19_TooFewEntriesFailEarly ==
    (TooFewEntries /\ pc # "start") =>
        /\ pc = "done"
        /\ ret.status = "returned"
        /\ ~ret.success
        /\ ret.error.where \in {"no_scenarios", "index_range", "not_enough_agents"}
        /\ built = <<>>
        /\ temp_files = <<>>
        /\ solver_log = <<>>

\* Two agents asked for from the last of two entries: one entry is there.
C19_Witness ==
    /\ Len(scenarios) = 2
    /\ scenario_index = 1
    /\ num_agents = 2
    /\ Len(agents) = 1
    /\ pc = "done"
    /\ ret.error.where = "not_enough_agents"
    /\ temp_files = <<>>
    /\ solver_log = <<>>

\* One agent asked for from past the end of the file.
C19_WitnessPastEnd ==
    /\ Len(scenarios) = 2
    /\ scenario_index = 2
    /\ num_agents = 1
    /\ pc = "done"
    /\ ret.error.where = "index_range"

\* C20 as stated: the three temporary files of a segment solve are released
\* when that solve returns, so at the start of the next segment, and when the
\* run returns, no temporary file of an earlier segment is held.
C20_ScopedRelease == pc \in {"loop", "done"} => temp_files = <<>>

\* The files in `files` are the joint-instance, statistics and paths files of
\* each of the segments 0 .. n - 1, and nothing else.
HoldsFilesOf(files, n) ==
    /\ Len(files) = 3 * n
    /\ \A s \in 0..(n - 1), kind \in {"scen", "stats", "paths"} :
          \E i \in 1..Len(files) : files[i] = [seg |-> s, kind |-> kind]

\* C20, amended: the temporary files of every segment built so far stay held
\* for the rest of the run, through the step that returns the result, be it
\* a success, a failure or a fault; the only thing that happens to them
\* afterwards is the removal of all of them when the runner is destroyed.
C20_HeldUntilDeleted ==
    [][/\ pc # "done" =>
            /\ HoldsFilesOf(temp_files, Len(built))
            /\ HoldsFilesOf(temp_files', Len(built'))
       /\ pc = "done" =>
            /\ HoldsFilesOf(temp_files, Len(built))
            /\ temp_files' = <<>>
            /\ pc' = "done"]_vars

\* The second segment is about to be built and the three files of the first
\* are still held.
C20_Witness ==
    /\ pc = "loop"
    /\ seg = 1
    /\ Len(segment_results) = 1
    /\ HoldsFilesOf(temp_files, 1)

\* A run of two segments has returned its result and the runner has been
\* destroyed: no file is held any more.
C20_WitnessDeleted ==
    /\ pc = "done"
    /\ ret.success
    /\ Len(built) = 2
    /\ temp_files = <<>>

\* C21: the solver is invoked for the segments 0, 1, 2, ... in that order,
\* one at a time and each at most once: an invocation is the solve step of
\* the one call, it is for the segment whose index is the number of
\* invocations made before it, all of those succeeded and had their outcomes
\* recorded, and the assembled paths already end where the paths of the
\* latest of them end.
C21_SequentialSolves ==
    [][solver_log' # solver_log =>
         /\ pc = "solve"
         /\ Len(solver_log') = Len(solver_log) + 1
         /\ SubSeq(solver_log', 1, Len(solver_log)) = solver_log
         /\ solver_log'[Len(solver_log')].seg = Len(solver_log)
         /\ seg = Len(solver_log)
         /\ \A i \in 1..Len(solver_log) : solver_log[i].success
         /\ Len(segment_results) = Len(solver_log)
         /\ \A i \in 1..Len(segment_results) : segment_results[i].segment = i
         /\ Len(segment_results) >= 1 =>
               \A a \in 0..(num_agents - 1) :
                  LET path == OutcomePath(Len(segment_results), a)
                      assembled == complete_paths[a + 1]
                  IN  IF path = <<>> THEN assembled = <<>>
                      ELSE /\ assembled # <<>>
                           /\ assembled[Len(assembled)] = path[Len(path)]]_vars

\* Two segments have been solved, segment 0 and then segment 1, and the run
\* has returned its result.
C21_Witness ==
    /\ num_agents >= 1
    /\ Len(solver_log) = 2
    /\ solver_log[1].seg = 0
    /\ solver_log[2].seg = 1
    /\ Len(segment_results) = 2
    /\ ret.success

\* C22 as stated, its finite part: a run with num_agents >= 1 makes at most
\* num_segments solver invocations, and when it has ended it is in exactly
\* one of two terminal states: Completed, a returned success with all
\* num_segments segments solved, or Failed, a returned failure.
C22_CompletedOrFailed ==
    (num_agents >= 1 /\ pc # "start") =>
        /\ Len(solver_log) <= num_segments
        /\ pc = "done" =>
              /\ ret.status = "returned"
              /\ ret.success =>
                    /\ Len(solver_log) = num_segments
                    /\ Len(segment_results) = num_segments
                    /\ \A i \in 1..Len(solver_log) : solver_log[i].success
              /\ ~ret.success => "error" \in ret.keys

\* What holds of it in the code: the invocations are bounded by num_segments
\* and an ended run is Completed, Failed or has raised.
C22_CompletedFailedOrRaised ==
    (num_agents >= 1 /\ pc # "start") =>
        /\ Len(solver_log) <= num_segments
        /\ pc = "done" =>
              /\ ret.status \in {"returned", "raised"}
              /\ (ret.status = "returned" /\ ret.success) =>
                    /\ Len(solver_log) = num_segments
                    /\ Len(segment_results) = num_segments
                    /\ \A i \in 1..Len(solver_log) : solver_log[i].success
              /\ (ret.status = "returned" /\ ~ret.success) => "error" \in ret.keys

\* An ended run stays ended, with the result it ended with.
C22_TerminalIsFinal == [][pc = "done" => (pc' = "done" /\ ret' = ret)]_vars

\* The run against a solver whose every call returns: no step that can be
\* taken is put off for ever.
SpecReturning == Spec /\ WF_vars(Next)

\* Every run ends.
C22_Ends == <>(pc = "done")

\* C23 as stated: a call with num_agents <= 0 never invokes the solver and
\* never returns a successful result.
C23_NonPositiveAgentsRefused ==
    num_agents <= 0 =>
        /\ solver_log = <<>>
        /\ ~(ret.status = "returned" /\ ret.success)

\* What holds of it: a call with num_agents = 0 never invokes the solver and
\* ends in a failure result or in the ValueError of max() over no routes.
C23_ZeroAgentsRefused ==
    (num_agents = 0 /\ pc # "start") =>
        /\ pc = "done"
        /\ solver_log = <<>>
        /\ built = <<>>
        /\ \/ ret.status = "returned" /\ ~ret.success
           \/ ret.status = "raised" /\ ret.error.reason = "ValueError"

====
